---- MODULE Spec2Model ----
(***************************************************************************)
(* Model of backend/index.js: the stream session registry (activeStreams), *)
(* the POST /stream/start, POST /stream/stop and GET /api/streams          *)
(* handlers, the encoder process callbacks (exec callback, stdout 'data'), *)
(* and the POST /extract-stream handler with its two timers.               *)
(*                                                                         *)
(* Node runs every handler and callback to completion on one thread, so    *)
(* each handler/callback is one atomic action.  What the operating system  *)
(* does (a process exiting, the clock advancing) is a separate action.     *)
(***************************************************************************)
EXTENDS Integers, Sequences, FiniteSets, TLC

\* Date.now() takes the values 0..MaxClock (milliseconds).
MaxClock == 1
\* Number of encoder processes exec() is asked to launch in a run.
MaxProcs == 2
\* Number of extract-stream requests in a run.
MaxExtract == 3
\* Number of progress fields in one chunk of encoder output.
MaxChunk == 3
\* Number of WebSocket connections in a run.
MaxClients == 2
\* Number of encoder processes where telemetry and observers are examined.
MaxObserved == 1

VARIABLES
  now,            \* the wall clock read by Date.now() / new Date()
  activeStreams,  \* the Map of line 19: streamId -> session info
  procs,          \* the child processes created by exec() at line 138
  kills,          \* per process: calls of process.kill('SIGTERM')
  terminals,      \* per process: terminal events broadcast for its session
  res,            \* the response written by the step just taken, if any
  sent,           \* the event broadcast by the step just taken, if any
  extracts,       \* the extract-stream requests (lines 38-93)
  chunk,          \* the output chunk the step just taken received, if any
  clients         \* the WebSocket connections accepted by wss (line 12)

vars ==
  <<now, activeStreams, procs, kills, terminals, res, sent, extracts, chunk,
    clients>>

Ids == 0..MaxClock

----------------------------------------------------------------------------
(* Request bodies *)

D_on == [enabled |-> TRUE, rtmpUrl |-> "rtmp://a", streamKey |-> "k1"]
D_off == [enabled |-> FALSE, rtmpUrl |-> "rtmp://b", streamKey |-> "k2"]

D_on2 == [enabled |-> TRUE, rtmpUrl |-> "rtmp://c", streamKey |-> "k3"]
D_nokey == [enabled |-> TRUE, rtmpUrl |-> "rtmp://d", streamKey |-> ""]
D_nourl == [enabled |-> TRUE, rtmpUrl |-> "", streamKey |-> "k5"]

DestLists ==
  { <<>>, <<D_on>>, <<D_off>>, <<D_off, D_on>>, <<D_on2, D_on>>,
    <<D_nokey, D_on>>, <<D_nourl>> }

\* settings: absent from the body, or an object with or without recording
SettingsInputs == [present : BOOLEAN, recording : BOOLEAN]

\* sourceUrl "" stands for an absent or empty sourceUrl (both falsy);
\* hasDestinations = FALSE for a body without a destinations field.
StartBodies ==
  { body \in [sourceUrl : {"", "rtsp://src"}, hasDestinations : BOOLEAN,
              destinations : DestLists, settings : SettingsInputs] :
      /\ ~body.hasDestinations => body.destinations = <<>>
      /\ ~body.settings.present => ~body.settings.recording
      /\ body.sourceUrl = "" =>
           body.hasDestinations /\ body.destinations = <<D_on>>
                                /\ body.settings.present }

\* The body the session life-cycle specification starts its streams with
LifeBody ==
  [sourceUrl |-> "rtsp://src", hasDestinations |-> TRUE,
   destinations |-> <<D_on>>,
   settings |-> [present |-> TRUE, recording |-> FALSE]]

\* Stands for "no body" in the record of a response to another request
NoBody ==
  [sourceUrl |-> "", hasDestinations |-> FALSE, destinations |-> <<>>,
   settings |-> [present |-> FALSE, recording |-> FALSE]]

\* The validation without its length check
MissingParametersNoLength(body) ==
  \/ body.sourceUrl = ""
  \/ ~body.hasDestinations

\* line 101: !sourceUrl || !destinations || destinations.length === 0
MissingParameters(body) ==
  \/ body.sourceUrl = ""
  \/ ~body.hasDestinations
  \/ Len(body.destinations) = 0

\* A forEach that attaches every enabled destination, also one without a
\* url or a key
OutputsAllEnabled(dests) ==
  LET on == SelectSeq(dests, LAMBDA d : d.enabled)
  IN [i \in 1..Len(on) |->
        [rtmpUrl |-> on[i].rtmpUrl, streamKey |-> on[i].streamKey]]

RECURSIVE Outputs(_)
\* lines 122-126: one "-f flv url/key" per destination that is enabled and
\* has a url and a key, in request order
Outputs(dests) ==
  IF dests = <<>> THEN <<>>
  ELSE LET dest == Head(dests)
           rest == Outputs(Tail(dests))
       IN IF dest.enabled /\ dest.rtmpUrl # "" /\ dest.streamKey # ""
          THEN <<[rtmpUrl |-> dest.rtmpUrl, streamKey |-> dest.streamKey]>> \o rest
          ELSE rest

\* lines 129-132: the recording output, named after new Date(); -1 for none
Recording(settings, t) == IF settings.recording THEN t ELSE -1

----------------------------------------------------------------------------
(* Responses and events *)

NoStreams == {}

Response(op, status, id, streams, body) ==
  [op |-> op, status |-> status, streamId |-> id, streams |-> streams,
   body |-> body]

NoResponse == Response("none", 0, -1, NoStreams, NoBody)

\* lines 28-33: the summaries GET /api/streams returns
Summaries(reg) ==
  { [id |-> id, status |-> reg[id].status, startTime |-> reg[id].startTime,
     destinations |-> reg[id].destinations] : id \in DOMAIN reg }

\* The stats field of an event that carries none
NoStats == [bitrate |-> 0, fps |-> 0, time |-> ""]

NoEvent == [type |-> "none", streamId |-> -1, stats |-> NoStats]

\* A broadcast that leaves the session id out of the event
BroadcastUpdateUntagged(type, streamId, stats) ==
  [type |-> type, streamId |-> -1, stats |-> stats]

\* lines 241-247: the message broadcastUpdate(type, {streamId, stats}) sends
BroadcastUpdate(type, streamId, stats) ==
  [type |-> type, streamId |-> streamId, stats |-> stats]

NoTerminals == [stream_stopped |-> 0, stream_error |-> 0]

\* The terminal event of type `type` is counted for the session of process p
Terminal(t, type, p) == [t EXCEPT ![p][type] = @ + 1]

----------------------------------------------------------------------------
(* The registry *)

\* Map.prototype.set
MapSet(reg, id, info) ==
  [k \in DOMAIN reg \cup {id} |-> IF k = id THEN info ELSE reg[k]]

\* Map.prototype.delete: deleting an absent key changes nothing
MapDelete(reg, id) == [k \in DOMAIN reg \ {id} |-> reg[k]]

\* A start that does not register the session before it responds
RegisterNothing(reg, id, info) == reg

\* line 157: activeStreams.set(streamId, {...})
Register(reg, id, info) == MapSet(reg, id, info)

\* line 176: activeStreams.has(streamId)
Has(reg, id) == id \in DOMAIN reg

\* A stop that leaves the entry in the registry
StopDeleteNothing(reg, id) == reg

\* A stop that marks the entry stopped instead of removing it
StopMarkStopped(reg, id) == [reg EXCEPT ![id].status = "stopped"]

\* line 182: activeStreams.delete(streamId) in the stop handler
StopDelete(reg, id) == MapDelete(reg, id)

\* An exit callback that marks the entry errored instead of removing it
ExitMarkErrored(reg, id) ==
  IF id \in DOMAIN reg THEN [reg EXCEPT ![id].status = "errored"] ELSE reg

\* line 141: activeStreams.delete(streamId) in the exit callback
ExitDelete(reg, id) == MapDelete(reg, id)

----------------------------------------------------------------------------
(* Encoder processes *)

\* The child process object exec() returns at line 138.  state is
\*   "running"  the process is alive,
\*   "failed"   it could not be spawned; its 'error' event is queued with
\*              process.nextTick and runs before any other callback,
\*   "exited"   it has ended and its exit callback has not run yet,
\*   "closed"   its exit callback (lines 138-144) has run.
NewProcess(id, outputs, recording, spawn) ==
  [streamId |-> id, outputs |-> outputs, recording |-> recording,
   state |-> IF spawn = "ok" THEN "running" ELSE "failed",
   exit |-> IF spawn = "ok" THEN "none" ELSE "spawn_error",
   signalled |-> FALSE]

\* What exec() can do with the command: start the shell, or fail to
SpawnOutcomes == {"ok", "error"}

\* How a running encoder can end: exit code 0, a non-zero exit code, or
\* killed by the SIGTERM it was sent
ExitKinds(proc) ==
  {"zero", "nonzero"} \cup (IF proc.signalled THEN {"signal"} ELSE {})

NoError == [present |-> FALSE, code |-> "0"]

\* The error argument exec passes to its callback: null after exit code 0;
\* otherwise an Error whose code is the exit code, null for a process
\* killed by a signal, or the errno name when the spawn failed
ExecError(exit) ==
  CASE exit = "zero" -> NoError
    [] exit = "nonzero" -> [present |-> TRUE, code |-> "1"]
    [] exit = "signal" -> [present |-> TRUE, code |-> "null"]
    [] exit = "spawn_error" -> [present |-> TRUE, code |-> "EAGAIN"]

\* line 139: error && error.code !== 0
IsStreamError(error) == error.present /\ error.code # "0"

\* A callback queued with process.nextTick runs before anything else
TickPending == \E p \in DOMAIN procs : procs[p].state = "failed"

----------------------------------------------------------------------------
(* Telemetry *)

\* A chunk of encoder output is a sequence of progress fields "key=text".
\* num is the part of text that the capture group of the key's pattern can
\* take ("" if the text does not start with such a part), rest what follows.
T_bitrate == [key |-> "bitrate", num |-> "1234.5", rest |-> "kbits/s"]
T_bitrateNA == [key |-> "bitrate", num |-> "", rest |-> "N/A"]
T_fps == [key |-> "fps", num |-> "30", rest |-> ""]
T_time == [key |-> "time", num |-> "00:01:02", rest |-> ".50"]

Tokens == {T_bitrate, T_bitrateNA, T_fps, T_time}

RECURSIVE SeqsUpTo(_, _)
\* The sequences over S of length 1..n
SeqsUpTo(S, n) ==
  IF n = 0 THEN {}
  ELSE LET shorter == SeqsUpTo(S, n - 1)
       IN { <<x>> : x \in S } \cup
          { Append(q, x) : q \in shorter, x \in S }

Chunks == SeqsUpTo(Tokens, MaxChunk)

\* The chunks the session life-cycle specification feeds its encoders
LifeChunks == { <<T_bitrateNA>>, <<T_time>>, <<T_fps>> }

\* No chunk was received
NoChunk == <<>>

\* line 227: /bitrate=\s*([\d.]+)kbits\/s/
BitrateMatches(tok) ==
  tok.key = "bitrate" /\ tok.num # "" /\ tok.rest = "kbits/s"

\* line 228: /fps=\s*(\d+)/
FpsMatches(tok) == tok.key = "fps" /\ tok.num # ""

\* line 229: /time=(\d+:\d+:\d+)/
TimeMatches(tok) == tok.key = "time" /\ tok.num # ""

\* String.prototype.match without the g flag: the first match, or null
\* (0 here)
FirstMatch(output, pattern) ==
  LET Matches(tok) == CASE pattern = "bitrate" -> BitrateMatches(tok)
                        [] pattern = "fps" -> FpsMatches(tok)
                        [] pattern = "time" -> TimeMatches(tok)
      hits == { i \in DOMAIN output : Matches(output[i]) }
  IN IF hits = {} THEN 0
     ELSE CHOOSE i \in hits : \A j \in hits : i <= j

\* parseFloat / parseInt of the captured digits; the bitrate in tenths
ParseFloat(num) == CASE num = "1234.5" -> 12345 [] OTHER -> 0
ParseInt(num) == CASE num = "30" -> 30 [] OTHER -> 0

\* parseFFmpegStats returning null
NullStats == [found |-> FALSE, bitrate |-> 0, fps |-> 0, time |-> ""]

\* A parser that wants both the bitrate and the fps
parseFFmpegStatsBoth(output) ==
  LET bitrateMatch == FirstMatch(output, "bitrate")
      fpsMatch == FirstMatch(output, "fps")
      timeMatch == FirstMatch(output, "time")
  IN IF bitrateMatch # 0 /\ fpsMatch # 0
     THEN [found |-> TRUE,
           bitrate |-> ParseFloat(output[bitrateMatch].num),
           fps |-> ParseInt(output[fpsMatch].num),
           time |-> IF timeMatch # 0 THEN output[timeMatch].num ELSE "00:00:00"]
     ELSE NullStats

\* lines 226-239
parseFFmpegStats(output) ==
  LET bitrateMatch == FirstMatch(output, "bitrate")
      fpsMatch == FirstMatch(output, "fps")
      timeMatch == FirstMatch(output, "time")
  IN IF bitrateMatch # 0 \/ fpsMatch # 0
     THEN [found |-> TRUE,
           bitrate |-> IF bitrateMatch # 0
                       THEN ParseFloat(output[bitrateMatch].num) ELSE 0,
           fps |-> IF fpsMatch # 0 THEN ParseInt(output[fpsMatch].num) ELSE 0,
           time |-> IF timeMatch # 0 THEN output[timeMatch].num ELSE "00:00:00"]
     ELSE NullStats

----------------------------------------------------------------------------
(* Observers *)

\* A connection handler that sends nothing
NoConnectionAck == NoEvent

\* line 216: the acknowledgement the connection handler sends
ConnectionAck == [type |-> "connected", streamId |-> -1, stats |-> NoStats]

\* A WebSocket connection: its readyState, the type of the first message it
\* was sent, and the message the step just taken sent it
NewClient == [readyState |-> "OPEN", first |-> "none", got |-> NoEvent]

\* client.send(message)
Send(client, message) ==
  [client EXCEPT !.got = message,
                 !.first = IF @ = "none" THEN message.type ELSE @]

\* wss.clients holds a connection until its 'close' event
InClients(client) == client.readyState # "CLOSED"

\* line 243: client.readyState === WebSocket.OPEN
IsOpen(client) == client.readyState = "OPEN"

\* A broadcast that skips the readyState test
DeliverToAll(cl, message) ==
  [i \in DOMAIN cl |->
     IF InClients(cl[i])
     THEN Send(cl[i], message)
     ELSE [cl[i] EXCEPT !.got = NoEvent]]

\* lines 242-246: the forEach of broadcastUpdate
Deliver(cl, message) ==
  [i \in DOMAIN cl |->
     IF InClients(cl[i]) /\ IsOpen(cl[i])
     THEN Send(cl[i], message)
     ELSE [cl[i] EXCEPT !.got = NoEvent]]

\* The connections after a step that has broadcast `message` (or nothing)
Publish(cl, message) ==
  IF message.type = "none"
  THEN [i \in DOMAIN cl |-> [cl[i] EXCEPT !.got = NoEvent]]
  ELSE Deliver(cl, message)

----------------------------------------------------------------------------
(* Handlers and callbacks *)

Init ==
  /\ now = 0
  /\ activeStreams = <<>>
  /\ procs = <<>>
  /\ kills = <<>>
  /\ terminals = <<>>
  /\ res = NoResponse
  /\ sent = NoEvent
  /\ extracts = <<>>
  /\ chunk = NoChunk
  /\ clients = <<>>

\* The clock advances between callbacks
Tick ==
  /\ now < MaxClock
  /\ ~TickPending
  /\ now' = now + 1
  /\ res' = NoResponse
  /\ sent' = NoEvent
  /\ UNCHANGED <<activeStreams, procs, kills, terminals, extracts>>
  /\ chunk' = NoChunk
  /\ clients' = Publish(clients, sent')

\* lines 97-103: POST /stream/start rejected by the validation
StartRejected(body) ==
  /\ ~TickPending
  /\ MissingParameters(body)
  /\ res' = Response("start", 400, -1, NoStreams, body)
  /\ sent' = NoEvent
  /\ UNCHANGED <<now, activeStreams, procs, kills, terminals, extracts>>
  /\ chunk' = NoChunk
  /\ clients' = Publish(clients, sent')

\* lines 97-109: a body without settings passes the validation and
\* settings.preset throws a TypeError; express answers 500
StartThrows(body) ==
  /\ ~TickPending
  /\ ~MissingParameters(body)
  /\ ~body.settings.present
  /\ res' = Response("start", 500, -1, NoStreams, body)
  /\ sent' = NoEvent
  /\ UNCHANGED <<now, activeStreams, procs, kills, terminals, extracts>>
  /\ chunk' = NoChunk
  /\ clients' = Publish(clients, sent')

\* lines 97-170: POST /stream/start.  streamId is Date.now() at line 99;
\* the handler is taken to run within one clock millisecond.
StartStream(body, spawn) ==
  /\ ~TickPending
  /\ ~MissingParameters(body)
  /\ body.settings.present
  /\ Len(procs) < MaxProcs
  /\ LET streamId == now
         process == Len(procs) + 1
     IN /\ procs' = Append(procs,
                      NewProcess(streamId, Outputs(body.destinations),
                                 Recording(body.settings, now), spawn))
        /\ kills' = Append(kills, 0)
        /\ terminals' = Append(terminals, NoTerminals)
        /\ activeStreams' =
             Register(activeStreams, streamId,
                      [status |-> "active", startTime |-> now,
                       destinations |-> body.destinations,
                       process |-> process, settings |-> body.settings])
        /\ res' = Response("start", 200, streamId, NoStreams, body)
  /\ sent' = NoEvent
  /\ UNCHANGED <<now, extracts>>
  /\ chunk' = NoChunk
  /\ clients' = Publish(clients, sent')

\* lines 173-178: POST /stream/stop for an id the registry does not hold
StopNotFound(streamId) ==
  /\ ~TickPending
  /\ ~Has(activeStreams, streamId)
  /\ res' = Response("stop", 404, streamId, NoStreams, NoBody)
  /\ sent' = NoEvent
  /\ UNCHANGED <<now, activeStreams, procs, kills, terminals, extracts>>
  /\ chunk' = NoChunk
  /\ clients' = Publish(clients, sent')

\* lines 173-190: POST /stream/stop
StopStream(streamId) ==
  /\ ~TickPending
  /\ Has(activeStreams, streamId)
  /\ LET stream == activeStreams[streamId]
         p == stream.process
     IN /\ kills' = [kills EXCEPT ![p] = @ + 1]
        /\ procs' = [procs EXCEPT ![p].signalled =
                       @ \/ procs[p].state = "running"]
        /\ activeStreams' = StopDelete(activeStreams, streamId)
        /\ sent' = BroadcastUpdate("stream_stopped", streamId, NoStats)
        /\ terminals' = Terminal(terminals, "stream_stopped", p)
  /\ res' = Response("stop", 200, streamId, NoStreams, NoBody)
  /\ UNCHANGED <<now, extracts>>
  /\ chunk' = NoChunk
  /\ clients' = Publish(clients, sent')

\* lines 27-35: GET /api/streams
ListStreams ==
  /\ ~TickPending
  /\ res' = Response("list", 200, -1, Summaries(activeStreams), NoBody)
  /\ sent' = NoEvent
  /\ UNCHANGED <<now, activeStreams, procs, kills, terminals, extracts>>
  /\ chunk' = NoChunk
  /\ clients' = Publish(clients, sent')

\* The encoder process ends (in the operating system)
ProcessExit(p, kind) ==
  /\ ~TickPending
  /\ procs[p].state = "running"
  /\ kind \in ExitKinds(procs[p])
  /\ procs' = [procs EXCEPT ![p].state = "exited", ![p].exit = kind]
  /\ res' = NoResponse
  /\ sent' = NoEvent
  /\ UNCHANGED <<now, activeStreams, kills, terminals, extracts>>
  /\ chunk' = NoChunk
  /\ clients' = Publish(clients, sent')

\* lines 138-144: the exec callback, run when the process has closed or
\* could not be spawned
ExecCallback(p) ==
  /\ procs[p].state \in {"exited", "failed"}
  /\ TickPending => procs[p].state = "failed"
  /\ LET streamId == procs[p].streamId
         error == ExecError(procs[p].exit)
     IN IF IsStreamError(error)
        THEN /\ activeStreams' = ExitDelete(activeStreams, streamId)
             /\ sent' = BroadcastUpdate("stream_error", streamId, NoStats)
             /\ terminals' = Terminal(terminals, "stream_error", p)
        ELSE /\ sent' = NoEvent
             /\ UNCHANGED <<activeStreams, terminals>>
  /\ procs' = [procs EXCEPT ![p].state = "closed"]
  /\ res' = NoResponse
  /\ UNCHANGED <<now, kills, extracts>>
  /\ chunk' = NoChunk
  /\ clients' = Publish(clients, sent')

\* lines 147-155: a chunk of encoder output arrives.  lastStats is written
\* and read only inside the callback, so it is not part of the state.
StdoutData(p, data) ==
  /\ ~TickPending
  /\ procs[p].state \in {"running", "exited"}
  /\ LET lastStats == data
         stats == parseFFmpegStats(lastStats)
     IN IF stats.found
        THEN sent' = BroadcastUpdate("stream_stats", procs[p].streamId,
                                     [bitrate |-> stats.bitrate,
                                      fps |-> stats.fps, time |-> stats.time])
        ELSE sent' = NoEvent
  /\ res' = NoResponse
  /\ UNCHANGED <<now, activeStreams, procs, kills, terminals, extracts>>
  /\ chunk' = data
  /\ clients' = Publish(clients, sent')

\* The session life cycle: start, stop, list, and the encoder's callbacks
Next ==
  \/ Tick
  \/ \E spawn \in SpawnOutcomes : StartStream(LifeBody, spawn)
  \/ \E streamId \in Ids : StopNotFound(streamId)
  \/ \E streamId \in Ids : StopStream(streamId)
  \/ ListStreams
  \/ \E p \in DOMAIN procs, kind \in {"zero", "nonzero", "signal"} : ProcessExit(p, kind)
  \/ \E p \in DOMAIN procs : ExecCallback(p)
  \/ \E p \in DOMAIN procs, data \in LifeChunks : StdoutData(p, data)

Spec == Init /\ [][Next]_vars

\* Start requests with every kind of body; the encoders keep running
NextStart ==
  \/ Tick
  \/ \E body \in StartBodies : StartRejected(body)
  \/ \E body \in StartBodies : StartThrows(body)
  \/ \E body \in StartBodies : StartStream(body, "ok")
  \/ ListStreams

SpecStart == Init /\ [][NextStart]_vars

\* Telemetry: one encoder writing any chunk, while it runs and after
NextParse ==
  \/ \E spawn \in SpawnOutcomes :
       Len(procs) < MaxObserved /\ StartStream(LifeBody, spawn)
  \/ \E p \in DOMAIN procs : ProcessExit(p, "zero")
  \/ \E p \in DOMAIN procs : ExecCallback(p)
  \/ \E p \in DOMAIN procs, data \in Chunks : StdoutData(p, data)

SpecParse == Init /\ [][NextParse]_vars

----------------------------------------------------------------------------
(* WebSocket connections, lines 213-224 *)

\* lines 213-219: wss 'connection'.  ws adds the socket to wss.clients and
\* emits 'connection' in the same turn, and the handler sends the
\* acknowledgement before it returns.
Connect ==
  /\ ~TickPending
  /\ Len(clients) < MaxClients
  /\ clients' = Append(Publish(clients, NoEvent),
                       IF ConnectionAck.type = "none" THEN NewClient
                       ELSE Send(NewClient, ConnectionAck))
  /\ res' = NoResponse
  /\ sent' = NoEvent
  /\ chunk' = NoChunk
  /\ UNCHANGED <<now, activeStreams, procs, kills, terminals, extracts>>

\* The close handshake of connection c begins: readyState becomes CLOSING
ClientClosing(c) ==
  /\ ~TickPending
  /\ clients[c].readyState = "OPEN"
  /\ clients' = [Publish(clients, NoEvent) EXCEPT ![c].readyState = "CLOSING"]
  /\ res' = NoResponse
  /\ sent' = NoEvent
  /\ chunk' = NoChunk
  /\ UNCHANGED <<now, activeStreams, procs, kills, terminals, extracts>>

\* lines 221-223: 'close' of connection c; ws has removed it from wss.clients
ClientClosed(c) ==
  /\ ~TickPending
  /\ clients[c].readyState \in {"OPEN", "CLOSING"}
  /\ clients' = [Publish(clients, NoEvent) EXCEPT ![c].readyState = "CLOSED"]
  /\ res' = NoResponse
  /\ sent' = NoEvent
  /\ chunk' = NoChunk
  /\ UNCHANGED <<now, activeStreams, procs, kills, terminals, extracts>>

\* Observers connecting and leaving while sessions start, report and end
NextObservers ==
  \/ Connect
  \/ \E c \in DOMAIN clients : ClientClosing(c)
  \/ \E c \in DOMAIN clients : ClientClosed(c)
  \/ Tick
  \/ \E spawn \in SpawnOutcomes :
       Len(procs) < MaxObserved /\ StartStream(LifeBody, spawn)
  \/ \E streamId \in Ids : StopStream(streamId)
  \/ \E p \in DOMAIN procs, kind \in {"zero", "nonzero", "signal"} :
       ProcessExit(p, kind)
  \/ \E p \in DOMAIN procs : ExecCallback(p)
  \/ \E p \in DOMAIN procs, data \in LifeChunks : StdoutData(p, data)

SpecObservers == Init /\ [][NextObservers]_vars

----------------------------------------------------------------------------
(* POST /extract-stream, lines 38-93 *)

\* (Lines 46-47 of the source are an unfinished conditional expression whose
\* value is never used; the handler is modelled from the statements around
\* it: the exec at line 49, the timer at line 80, the listener at line 92.)

\* One extract-stream request: its resolver child process, exec's own
\* timeout timer (line 50), the safety timer (line 80), and its response
NewExtract(hasUrl) ==
  [hasUrl |-> hasUrl,
   child |-> IF hasUrl THEN "running" ELSE "none",
   execTimer |-> hasUrl,
   timeoutId |-> hasUrl,
   kills |-> 0,
   headersSent |-> ~hasUrl,
   jsonCalls |-> IF hasUrl THEN 0 ELSE 1,
   success |-> IF hasUrl THEN "none" ELSE "false",
   threw |-> FALSE]

\* res.json() on a response whose headers are sent throws
\* ERR_HTTP_HEADERS_SENT; thrown from a callback it is an uncaught exception
\* and the server process ends
Crashed == \E r \in DOMAIN extracts : extracts[r].threw

\* What the resolver wrote when it closed
ResolverOutcomes == {"url", "empty", "error"}

\* lines 55-76: the response the exec callback chooses
CallbackSuccess(outcome) == IF outcome = "url" THEN "true" ELSE "false"

\* lines 57, 65, 72: res.json() called without looking at res.headersSent
CallbackResponds(x) == TRUE

\* line 83: if (!res.headersSent)
TimerResponds(x) == ~x.headersSent

\* lines 38-93: the request handler
ExtractStream(hasUrl) ==
  /\ ~Crashed
  /\ Len(extracts) < MaxExtract
  /\ extracts' = Append(extracts, NewExtract(hasUrl))
  /\ UNCHANGED <<now, activeStreams, procs, kills, terminals, res, sent, chunk,
               clients>>

\* line 50: exec's timeout elapses and exec kills the resolver
ExecTimeout(r) ==
  /\ ~Crashed
  /\ extracts[r].execTimer
  /\ extracts[r].child = "running"
  /\ extracts' = [extracts EXCEPT ![r].execTimer = FALSE, ![r].kills = @ + 1]
  /\ UNCHANGED <<now, activeStreams, procs, kills, terminals, res, sent, chunk,
               clients>>

\* lines 80-89: the safety timer fires.  It was set after exec's timer with
\* the same delay, so exec's timer has fired before it.
SafetyTimeout(r) ==
  /\ ~Crashed
  /\ extracts[r].timeoutId
  /\ ~extracts[r].execTimer
  /\ LET x == extracts[r]
     IN extracts' =
          [extracts EXCEPT
             ![r].timeoutId = FALSE,
             ![r].kills = @ + 1,
             ![r].jsonCalls = IF TimerResponds(x) THEN @ + 1 ELSE @,
             ![r].success = IF TimerResponds(x) THEN "false" ELSE @,
             ![r].headersSent = TRUE]
  /\ UNCHANGED <<now, activeStreams, procs, kills, terminals, res, sent, chunk,
               clients>>

\* lines 52-77 and 92: the resolver closes; exec clears its timer and runs
\* the callback, then the 'close' listener clears the safety timer
ChildClose(r, outcome) ==
  /\ ~Crashed
  /\ extracts[r].child = "running"
  /\ LET x == extracts[r]
         responds == CallbackResponds(x)
         throws == responds /\ x.headersSent
     IN extracts' =
          [extracts EXCEPT
             ![r].child = "closed",
             ![r].execTimer = FALSE,
             ![r].timeoutId = IF throws THEN @ ELSE FALSE,
             ![r].jsonCalls = IF responds THEN @ + 1 ELSE @,
             ![r].success = IF responds /\ ~throws
                            THEN CallbackSuccess(outcome) ELSE @,
             ![r].headersSent = @ \/ responds,
             ![r].threw = throws]
  /\ UNCHANGED <<now, activeStreams, procs, kills, terminals, res, sent, chunk,
               clients>>

NextExtract ==
  \/ \E hasUrl \in BOOLEAN : ExtractStream(hasUrl)
  \/ \E r \in DOMAIN extracts : ExecTimeout(r)
  \/ \E r \in DOMAIN extracts : SafetyTimeout(r)
  \/ \E r \in DOMAIN extracts, outcome \in ResolverOutcomes : ChildClose(r, outcome)

SpecExtract == Init /\ [][NextExtract]_vars

\* Node fires a timer that is due: an armed timer does not wait for ever
SpecExtractFair ==
  /\ Init
  /\ [][NextExtract]_vars
  /\ \A r \in 1..MaxExtract :
       /\ WF_vars(r \in DOMAIN extracts /\ ExecTimeout(r))
       /\ WF_vars(r \in DOMAIN extracts /\ SafetyTimeout(r))

----------------------------------------------------------------------------
(* Properties *)

TerminalCount(p) == terminals[p].stream_stopped + terminals[p].stream_error

ListedIds(streams) == { x.id : x \in streams }

\* The session started last under id s has been stopped by a stop request
\* (there has been no start under s since that stop)
StoppedNoRestart(s) ==
  \E p \in DOMAIN procs :
    /\ procs[p].streamId = s
    /\ kills[p] > 0
    /\ \A q \in DOMAIN procs : q > p => procs[q].streamId # s

\* C1: every started session gets exactly one terminal event
\* (stream_stopped or stream_error): never two, and never none once its
\* process has ended and the exit callback has run.
C1_ExactlyOneTerminal ==
  \A p \in DOMAIN procs :
    /\ TerminalCount(p) <= 1
    /\ procs[p].state = "closed" => TerminalCount(p) = 1

\* C2: an entry is in the registry with status 'active' only while its
\* encoder process has not ended: no entry stays 'active' once the exit of
\* its process has been handled, whatever the exit code.
C2_ActiveIffAlive ==
  \A id \in DOMAIN activeStreams :
    activeStreams[id].status = "active" =>
      procs[activeStreams[id].process].state # "closed"

\* C3: an exit callback and a stop request remove a session once, and
\* remove no other session's entry: an entry leaves the registry only by a
\* stop request for its id or by the exit callback of its own process.
C3_RemovesOwnEntryOnly ==
  [][\A id \in DOMAIN activeStreams :
       id \notin DOMAIN activeStreams' =>
         \/ res'.op = "stop" /\ res'.status = 200 /\ res'.streamId = id
         \/ /\ procs[activeStreams[id].process].state # "closed"
            /\ procs'[activeStreams[id].process].state = "closed"]_vars

\* C4: a stop request for an id that an earlier stop request has stopped
\* (no start in between) answers 404, sends no signal and broadcasts no
\* event; a successful stop has signalled the session's process, and no
\* process is sent the termination signal twice.
C4_SecondStopNotFound ==
  /\ [](\A p \in DOMAIN procs : kills[p] <= 1)
  /\ [](res.op = "stop" /\ res.status = 200 =>
          \E p \in DOMAIN procs :
            procs[p].streamId = res.streamId /\ kills[p] = 1)
  /\ [][\A s \in Ids :
          (StoppedNoRestart(s) /\ res'.op = "stop" /\ res'.streamId = s) =>
            /\ res'.status = 404
            /\ kills' = kills
            /\ terminals' = terminals
            /\ sent' = NoEvent]_vars

\* C4 witness: a stop request answered 404 for an id whose session an
\* earlier stop request stopped, the process having been signalled once
C4_Witness ==
  /\ res.op = "stop" /\ res.status = 404
  /\ StoppedNoRestart(res.streamId)
  /\ \E p \in DOMAIN procs :
       procs[p].streamId = res.streamId /\ kills[p] = 1

\* C5: the snapshot of a list request holds no id that a stop request has
\* stopped with no start since, whether or not the killed process has ended.
C5_ListOmitsStopped ==
  res.op = "list" =>
    \A s \in Ids : StoppedNoRestart(s) => s \notin ListedIds(res.streams)

\* C5 witness: a list answered while a stopped session's process is still
\* running and another session is listed
C5_Witness ==
  /\ res.op = "list" /\ res.streams # {}
  /\ \E p \in DOMAIN procs :
       /\ kills[p] = 1 /\ procs[p].state = "running"
       /\ StoppedNoRestart(procs[p].streamId)

\* C6: a start request without sourceUrl, without destinations or with an
\* empty destinations list answers 400, leaves the registry as it was,
\* launches no process and broadcasts nothing.
C6_MissingRejected ==
  [][(/\ res'.op = "start"
      /\ \/ res'.body.sourceUrl = ""
         \/ ~res'.body.hasDestinations
         \/ res'.body.destinations = <<>>) =>
       /\ res'.status = 400
       /\ UNCHANGED <<activeStreams, procs, kills, terminals>>
       /\ sent' = NoEvent]_vars

\* C6 witness: a start with an empty destinations list answered 400 while
\* the registry holds a session
C6_Witness ==
  /\ res.op = "start" /\ res.status = 400
  /\ res.body.sourceUrl # "" /\ res.body.hasDestinations
  /\ res.body.destinations = <<>>
  /\ DOMAIN activeStreams # {}

\* C7: a start request whose destinations are all disabled fails, registers
\* no session and launches no encoder process.
C7_AllDisabledRejected ==
  [][(/\ res'.op = "start"
      /\ res'.body.settings.present
      /\ res'.body.sourceUrl # "" /\ res'.body.hasDestinations
      /\ res'.body.destinations # <<>>
      /\ \A i \in DOMAIN res'.body.destinations :
           ~res'.body.destinations[i].enabled) =>
       /\ res'.status = 400
       /\ UNCHANGED <<activeStreams, procs>>]_vars

\* C8: when a start answers success with id s, the registry holds s as
\* 'active' with the process just launched, whose callbacks have not run;
\* a list or stop request handled next finds s.
C8_RegisteredBeforeResponse ==
  /\ [](res.op = "start" /\ res.status = 200 =>
          /\ res.streamId \in DOMAIN activeStreams
          /\ activeStreams[res.streamId].status = "active"
          /\ activeStreams[res.streamId].process = Len(procs)
          /\ procs[Len(procs)].state \in {"running", "failed"})
  /\ [][(res.op = "start" /\ res.status = 200) =>
          /\ res'.op = "list" => res.streamId \in ListedIds(res'.streams)
          /\ (res'.op = "stop" /\ res'.streamId = res.streamId) =>
               res'.status = 200]_vars

\* C8 witness: a second session has just been started and registered
C8_Witness ==
  /\ res.op = "start" /\ res.status = 200
  /\ Len(procs) = 2
  /\ Cardinality(DOMAIN activeStreams) = 2

\* C9: a session whose encoder process failed to start is never in the
\* registry, and its start request does not answer success.
C9_SpawnFailureNotRegistered ==
  /\ \A id \in DOMAIN activeStreams :
       procs[activeStreams[id].process].exit # "spawn_error"
  /\ (res.op = "start" /\ res.status = 200) =>
       procs[Len(procs)].exit # "spawn_error"

\* C10: every extract-stream request gets at most one response: of the
\* timer path and the completion callback only one calls res.json().
C10_AtMostOneResponse ==
  \A r \in DOMAIN extracts : extracts[r].jsonCalls <= 1

\* C11: every encoder process that is alive and has not been sent the
\* termination signal is the handle of exactly one registry entry, and no
\* two started sessions have the same id (a later start overwrites no entry
\* of a running session).
C11_OneEntryPerLiveProcess ==
  /\ \A p \in DOMAIN procs :
       (procs[p].state = "running" /\ kills[p] = 0) =>
         Cardinality({ id \in DOMAIN activeStreams :
                         activeStreams[id].process = p }) = 1
  /\ \A p, q \in DOMAIN procs :
       p # q => procs[p].streamId # procs[q].streamId

\* C12: a start with settings.recording gets one recording output and a
\* start without it gets none, and no two starts get the same recording path.
C12_RecordingPathsDistinct ==
  /\ (res.op = "start" /\ res.status = 200) =>
       (procs[Len(procs)].recording # -1 <=> res.body.settings.recording)
  /\ \A p, q \in DOMAIN procs :
       (p # q /\ procs[p].recording # -1 /\ procs[q].recording # -1) =>
         procs[p].recording # procs[q].recording

\* C14: once a terminal event has been broadcast for the session of an
\* encoder process, no further event tagged with its id is broadcast.
C14_NothingAfterTerminal ==
  [][\A p \in DOMAIN procs :
       TerminalCount(p) >= 1 => sent'.streamId # procs[p].streamId]_vars

\* C19: every entry of the registry has status 'active', and every summary
\* a list request returns reports 'active'.
C19_StatusAlwaysActive ==
  /\ \A id \in DOMAIN activeStreams : activeStreams[id].status = "active"
  /\ res.op = "list" => \A x \in res.streams : x.status = "active"

\* C19 witness: a list that reports a session whose encoder has ended and
\* whose exit callback has run
C19_Witness ==
  /\ res.op = "list"
  /\ \E x \in res.streams :
       /\ x.id \in DOMAIN activeStreams
       /\ procs[activeStreams[x.id].process].state = "closed"

\* C20: stream_stopped for id s is broadcast exactly by a successful stop
\* request for s, which found s in the registry, after the signal was sent
\* and s was removed; stream_error for id s is broadcast only by the exit
\* callback of a process launched under id s.
C20_EventOrigins ==
  /\ [](sent.type = "stream_stopped" =>
          /\ res.op = "stop" /\ res.status = 200
          /\ res.streamId = sent.streamId
          /\ sent.streamId \notin DOMAIN activeStreams
          /\ \E p \in DOMAIN procs :
               procs[p].streamId = sent.streamId /\ kills[p] >= 1)
  /\ []((res.op = "stop" /\ res.status = 200) =>
          sent = [type |-> "stream_stopped", streamId |-> res.streamId,
                  stats |-> NoStats])
  /\ [](sent.type = "stream_error" => res.op = "none")
  /\ [][/\ sent'.type = "stream_stopped" =>
             sent'.streamId \in DOMAIN activeStreams
        /\ sent'.type = "stream_error" =>
             \E p \in DOMAIN procs :
               /\ procs[p].streamId = sent'.streamId
               /\ procs[p].state # "closed"
               /\ procs'[p].state = "closed"]_vars

\* C20 witness: the exit callback of a process killed by a stop request
\* has just broadcast stream_error for the stopped id
C20_Witness ==
  /\ sent.type = "stream_error"
  /\ \E p \in DOMAIN procs :
       /\ procs[p].streamId = sent.streamId
       /\ procs[p].state = "closed"
       /\ terminals[p].stream_stopped = 1

\* C16: the output targets of a start that passes the validation are the
\* destinations that are enabled and have a url and a key, one each, in
\* request order; the other destinations add nothing and do not make the
\* start fail.
C16_TargetsAreUsableDestinations ==
  /\ [](res.op = "start" /\ res.status = 200 =>
          LET usable == SelectSeq(res.body.destinations,
                          LAMBDA d : d.enabled /\ d.rtmpUrl # "" /\ d.streamKey # "")
              outputs == procs[Len(procs)].outputs
          IN /\ Len(outputs) = Len(usable)
             /\ \A i \in 1..Len(usable) :
                  /\ outputs[i].rtmpUrl = usable[i].rtmpUrl
                  /\ outputs[i].streamKey = usable[i].streamKey)
  /\ [][(/\ res'.op = "start"
         /\ res'.body.sourceUrl # "" /\ res'.body.hasDestinations
         /\ res'.body.destinations # <<>>
         /\ res'.body.settings.present) => res'.status = 200]_vars

\* C16 witness: a start whose first destination has no key has succeeded
\* with the second destination as its only target
C16_Witness ==
  /\ res.op = "start" /\ res.status = 200
  /\ res.body.destinations = <<D_nokey, D_on>>
  /\ Len(procs[Len(procs)].outputs) = 1

\* C17: every extract-stream request eventually gets a response; a resolver
\* still running when the budget elapses is sent the termination signal and
\* the caller gets a failure response; once the resolver has closed, the
\* safety timer is cancelled, so no signal and no timeout response follow.
C17_EveryExtractAnswered ==
  /\ \A r \in 1..MaxExtract :
       [](r \in DOMAIN extracts =>
            <>(r \in DOMAIN extracts /\ extracts[r].headersSent))
  /\ [][\A r \in DOMAIN extracts :
          /\ SafetyTimeout(r) =>
               /\ extracts'[r].kills = extracts[r].kills + 1
               /\ extracts'[r].headersSent
               /\ ~extracts[r].headersSent => extracts'[r].success = "false"
          /\ extracts[r].child = "closed" =>
               /\ extracts'[r].kills = extracts[r].kills
               /\ extracts'[r].jsonCalls = extracts[r].jsonCalls]_vars

\* C15: for every chunk, parseFFmpegStats gives no stats exactly when the
\* chunk holds neither the bitrate nor the fps pattern (time alone gives
\* none); otherwise the stats broadcast carry the parsed value of each
\* pattern that is present and the default (0, 0, '00:00:00') of each that
\* is absent, whatever chunks came before.
C15_StatsFromChunkAlone ==
  /\ chunk # NoChunk =>
       LET hasBitrate == \E i \in DOMAIN chunk : chunk[i] = T_bitrate
           hasFps == \E i \in DOMAIN chunk : chunk[i] = T_fps
           hasTime == \E i \in DOMAIN chunk : chunk[i] = T_time
       IN IF ~hasBitrate /\ ~hasFps
          THEN sent = NoEvent
          ELSE /\ sent.type = "stream_stats"
               /\ sent.stats.bitrate = (IF hasBitrate THEN 12345 ELSE 0)
               /\ sent.stats.fps = (IF hasFps THEN 30 ELSE 0)
               /\ sent.stats.time =
                    (IF hasTime THEN "00:01:02" ELSE "00:00:00")
  /\ sent.type = "stream_stats" => chunk # NoChunk

\* C15 witness: a chunk whose second bitrate field alone matches has given
\* stats with the fps and the time at their defaults
C15_Witness ==
  /\ chunk = <<T_bitrateNA, T_bitrate>>
  /\ sent.type = "stream_stats"
  /\ sent.stats = [bitrate |-> 12345, fps |-> 0, time |-> "00:00:00"]

\* C13: the first message every connection is sent is the 'connected'
\* acknowledgement; a broadcast reaches a connection only after it.
C13_ConnectedFirst ==
  /\ [](\A c \in DOMAIN clients : clients[c].first = "connected")
  /\ [][\A c \in DOMAIN clients' :
          clients'[c].got.type \in
              {"stream_stats", "stream_error", "stream_stopped"} =>
            /\ c \in DOMAIN clients
            /\ clients[c].first = "connected"]_vars

\* C13 witness: a broadcast has reached a connection, another connection
\* having been accepted between the acknowledgement and the broadcast
C13_Witness ==
  /\ Len(clients) = 2
  /\ \A c \in DOMAIN clients :
       /\ clients[c].got = sent
       /\ clients[c].first = "connected"
  /\ sent.type = "stream_error"

\* C18: a broadcast reaches every connection that is OPEN when it is made
\* and no other, and the handler that made it completes: the stop request
\* is answered, the exit callback has removed the entry.
C18_OpenObserversOnly ==
  [][sent'.type # "none" =>
       /\ DOMAIN clients' = DOMAIN clients
       /\ \A c \in DOMAIN clients :
            clients'[c].got =
              (IF clients[c].readyState = "OPEN" THEN sent' ELSE NoEvent)
       /\ sent'.type = "stream_stopped" =>
            res'.op = "stop" /\ res'.status = 200
       /\ sent'.type = "stream_error" =>
            sent'.streamId \notin DOMAIN activeStreams']_vars

\* C18 witness: a stop request was answered while its stream_stopped
\* reached the open connection and not the closing one
C18_Witness ==
  /\ sent.type = "stream_stopped"
  /\ res.status = 200
  /\ \E c, d \in DOMAIN clients :
       /\ clients[c].readyState = "OPEN" /\ clients[c].got = sent
       /\ clients[d].readyState = "CLOSING" /\ clients[d].got = NoEvent
====
